---- MODULE Spec2Model ----
(***************************************************************************)
(* A model of the sampling engine of the `sample` command-line tool:       *)
(*   - reservoir_sample            (src/src/sampling.rs)                   *)
(*   - PercentageSampleIter        (src/src/sampling/percentage.rs)        *)
(*   - CsvHashSampler              (src/src/sampling/hash.rs)              *)
(*   - the rng set-up and the error mapping of process_input (main.rs)     *)
(*   - parse_args and the branch process_input takes (config.rs, main.rs)  *)
(* Each part has its own specification (SpecReservoir, SpecPercentage,     *)
(* SpecHash, SpecStreaming, SpecSeeded, SpecConfig); the variables of the  *)
(* other parts stay at their initial values.                               *)
(***************************************************************************)
EXTENDS Integers, Sequences, FiniteSets, TLC

\* ------------------------------------------------------------------ bounds
MaxN == 4          \* longest input sequence of the reservoir selector
MaxK == 3          \* largest sample size k
MaxLen == 3        \* longest input sequence of the percentage selector
MaxRows == 2        \* most data lines the reader of a CsvHashSampler holds
DrawRes == 4       \* rng.gen::<f64>() yields u / DrawRes for u in 0..DrawRes-1

Values == {"a", "b"}   \* record contents (two records may be equal)

\* ----------------------------------------------------------------- helpers
Min(a, b) == IF a <= b THEN a ELSE b

RECURSIVE SeqsUpTo(_, _)
SeqsUpTo(S, n) ==
    IF n = 0 THEN {<<>>}
    ELSE LET shorter == SeqsUpTo(S, n - 1)
         IN  shorter \cup {Append(s, x) : s \in {t \in shorter : Len(t) = n - 1}, x \in S}

RECURSIVE Binomial(_, _)
Binomial(n, m) ==
    IF m = 0 THEN 1
    ELSE IF m > n THEN 0
    ELSE Binomial(n - 1, m - 1) + Binomial(n - 1, m)

\* The i-th record an iterator over `inp` yields: its content and, to tell
\* equal records apart, the input position it comes from.
Item(inp, i) == [pos |-> i, val |-> inp[i]]

Items(inp) == [i \in 1..Len(inp) |-> Item(inp, i)]

\* ---------------------------------------------------------------- variables
VARIABLES
    input,       \* reservoir_sample: the records `iter` yields, in order
    k,           \* reservoir_sample: the parameter k
    reservoir,   \* reservoir_sample: the local `reservoir`
    count,       \* reservoir_sample: the local `count`
    rpc,         \* reservoir_sample: "loop" inside the for loop, "done" after return
    result,      \* reservoir_sample: the returned Vec
    drawn,       \* reservoir_sample: the values rng.gen_range has returned so far
    iter,        \* PercentageSampleIter.iter: the records the inner iterator yields
    consumed,    \* PercentageSampleIter.iter: how many of them it has yielded
    percentage,  \* the percentage argument of the constructor
    probability, \* PercentageSampleIter.probability / CsvHashSampler.probability
    ppc,         \* PercentageSampleIter: "new", "iter", "end" (None returned), "panic"
    out,         \* the items handed to the consumer so far, in order
    udrawn,      \* the values rng.gen::<f64>() has returned so far (numerators)
    column_name, \* CsvHashSampler::new: the requested column name
    hashfn,      \* the values calculate_hash has returned so far in this process, by key
    reader_head, \* CsvHashSampler::new: the first line the reader holds
    hpc,         \* CsvHashSampler: "new", "streaming", "failed" (new returned Err), "panic"
    new_result,  \* CsvHashSampler::new: what it returned
    proc_error,  \* process_input: the Error it returned after a failed construction
    header,      \* CsvHashSampler.header
    column_index,\* CsvHashSampler.column_index
    done,        \* CsvHashSampler.done
    read,        \* the lines self.reader has read after the header, in order
    last,        \* CsvHashSampler::next: its latest return value
    decisions,   \* every <<key, include>> the samplers of this process have computed
    printed,     \* process_input, hash path: the lines it has printed, in order
    seed,        \* config.seed, the same for the two runs of the program
    selector,    \* the selector process_input runs: "reservoir" or "percentage"
    runs,        \* two runs of the program on the same input: the state of each
    args,        \* the command line: the value given to each argument, if any
    cpc,         \* main: "start", "accepted" / "rejected" (parse_args returned), "running"
    parsed,      \* what parse_args returned
    dispatch     \* process_input: the selector it runs, "none" before it is called

rvars == <<input, k, reservoir, count, rpc, result, drawn>>
pvars == <<iter, consumed, ppc, udrawn>>
svars == <<percentage, probability, out>>
hvars == <<column_name, hashfn, reader_head, hpc, new_result, proc_error, header, column_index,
           done, read, last, decisions, printed>>

tvars == <<seed, selector, runs>>

cvars == <<args, cpc, parsed, dispatch>>

vars == <<rvars, pvars, svars, hvars, tvars, cvars>>

\* A selector that process_input does not run stays in these states.
ReservoirIdle ==
    /\ input = <<>> /\ k = 1 /\ reservoir = <<>> /\ count = 0
    /\ rpc = "idle" /\ result = <<>> /\ drawn = <<>>

PercentageIdle ==
    /\ iter = <<>> /\ consumed = 0 /\ ppc = "idle" /\ udrawn = <<>>

StreamIdle ==
    /\ percentage = 0 /\ probability = <<0, 100>> /\ out = <<>>

HashIdle ==
    /\ column_name = <<>> /\ hashfn = <<>> /\ hpc = "idle"
    /\ reader_head = [bad |-> FALSE, fields |-> <<>>]
    /\ new_result = [ok |-> TRUE] /\ proc_error = [kind |-> "none"]
    /\ header = <<>> /\ column_index = 0 /\ done = FALSE /\ read = <<>>
    /\ last = [some |-> FALSE] /\ decisions = {} /\ printed = <<>>

SeededIdle ==
    /\ seed = [some |-> FALSE] /\ selector = "idle" /\ runs = <<>>

ConfigIdle ==
    /\ args = <<>> /\ cpc = "idle" /\ parsed = [ok |-> TRUE] /\ dispatch = "none"

\* =========================================================================
\* reservoir_sample
\* =========================================================================

\* rng.gen_range(0..count): the values the half-open range can yield.
gen_range_bad(cnt) == 0..cnt
gen_range(cnt) == 0..(cnt - 1)

\* `count <= k`: the record is pushed without a draw.
fills_bad(cnt, kk) == cnt <= kk + 1
fills(cnt, kk) == cnt <= kk

\* The body of the for loop after `count += 1`, for the draw j (j is read
\* only in the else branch).
reservoir_step_front(res, cnt, kk, item, j) ==
    IF fills(cnt, kk) THEN <<item>> \o res
    ELSE IF j < kk THEN [res EXCEPT ![j + 1] = item]
    ELSE res
reservoir_step(res, cnt, kk, item, j) ==
    IF fills(cnt, kk) THEN Append(res, item)
    ELSE IF j < kk THEN [res EXCEPT ![j + 1] = item]
    ELSE res

\* The record the for loop binds to `item` in its cnt-th iteration.
next_item_stale(inp, cnt) == Item(inp, IF cnt > 1 THEN cnt - 1 ELSE cnt)
next_item(inp, cnt) == Item(inp, cnt)

\* The draws the cnt-th iteration can make: none while filling.
NoDraw == -1
Draws(cnt, kk) == IF fills(cnt, kk) THEN {NoDraw} ELSE gen_range(cnt)

ReservoirInit ==
    /\ input \in SeqsUpTo(Values, MaxN)
    /\ k \in 1..MaxK
    /\ reservoir = <<>>
    /\ count = 0
    /\ rpc = "loop"
    /\ result = <<>>
    /\ drawn = <<>>
    /\ PercentageIdle /\ StreamIdle /\ HashIdle /\ SeededIdle /\ ConfigIdle

\* One iteration of `for item in iter`.
ReservoirLoop ==
    /\ rpc = "loop"
    /\ count < Len(input)
    /\ LET cnt == count + 1
       IN  /\ count' = cnt
           /\ \E j \in Draws(cnt, k) :
                /\ reservoir' = reservoir_step(reservoir, cnt, k, next_item(input, cnt), j)
                /\ drawn' = IF j = NoDraw THEN drawn ELSE Append(drawn, j)
    /\ UNCHANGED <<input, k, rpc, result, pvars, svars, hvars, tvars, cvars>>

\* The iterator is exhausted: return the reservoir.
ReservoirReturn ==
    /\ rpc = "loop"
    /\ count = Len(input)
    /\ rpc' = "done"
    /\ result' = reservoir
    /\ UNCHANGED <<input, k, reservoir, count, drawn, pvars, svars, hvars, tvars, cvars>>

ReservoirNext == ReservoirLoop \/ ReservoirReturn

SpecReservoir == ReservoirInit /\ [][ReservoirNext]_vars

\* reservoir_sample as a function of the input, k and the sequence of draws.
RECURSIVE reservoir_fold(_, _, _, _, _)
reservoir_fold(inp, kk, d, cnt, res) ==
    IF cnt = Len(inp) THEN res
    ELSE LET c == cnt + 1
         IN  IF fills(c, kk)
             THEN reservoir_fold(inp, kk, d, c,
                                 reservoir_step(res, c, kk, next_item(inp, c), NoDraw))
             ELSE reservoir_fold(inp, kk, Tail(d), c,
                                 reservoir_step(res, c, kk, next_item(inp, c), Head(d)))

reservoir_sample(inp, kk, d) == reservoir_fold(inp, kk, d, 0, <<>>)

\* Every sequence of draws a run over n records can make: one draw from
\* gen_range(c) for each record c that is not pushed while filling.
RECURSIVE DrawSeqsFrom(_, _, _)
DrawSeqsFrom(c, n, kk) ==
    IF c > n THEN {<<>>}
    ELSE IF fills(c, kk) THEN DrawSeqsFrom(c + 1, n, kk)
    ELSE {<<j>> \o d : j \in gen_range(c), d \in DrawSeqsFrom(c + 1, n, kk)}

DrawSeqs(n, kk) == DrawSeqsFrom(1, n, kk)

Positions(res) == {res[i].pos : i \in 1..Len(res)}

\* ------------------------------------------------------------------ C1
\* C1: after i records the reservoir holds exactly min(i, k) records and
\* count = i (count is the number of records consumed: every draw belongs to
\* one record past the k-th); the returned sequence has min(n, k) records and
\* the reservoir never holds more than k.
C1_ReservoirSize ==
    /\ Len(reservoir) = Min(count, k)
    /\ Len(reservoir) <= k
    /\ count <= Len(input)
    /\ Len(drawn) = (IF count > k THEN count - k ELSE 0)
    /\ rpc = "done" => /\ count = Len(input)
                       /\ Len(result) = Min(Len(input), k)

C1_Witness ==
    /\ rpc = "done"
    /\ Len(input) > k
    /\ Len(result) = k
    /\ \E i \in 1..Len(drawn) : drawn[i] < k

\* ------------------------------------------------------------------ C2
\* C2: with n <= k records (n = 0 and n = k = 1 included) the result is the
\* n input records in input order, and no random draw is made; while filling,
\* the reservoir is the prefix of the input consumed so far.
C2_SmallInputKept ==
    /\ count <= k => /\ reservoir = SubSeq(Items(input), 1, count)
                     /\ drawn = <<>>
    /\ (rpc = "done" /\ Len(input) <= k) => /\ result = Items(input)
                                            /\ drawn = <<>>

C2_Witness ==
    /\ rpc = "done"
    /\ Len(input) = k
    /\ k >= 2
    /\ result = Items(input)
    /\ drawn = <<>>

\* ------------------------------------------------------------------ C3
\* C3: with n > k records the result has exactly k records, each one a record
\* of the input, and no input position occurs in it twice, whatever the draws.
C3_SampleIsSubset ==
    (rpc = "done" /\ Len(input) > k) =>
        /\ Len(result) = k
        /\ \A i \in 1..Len(result) :
              /\ result[i].pos \in 1..Len(input)
              /\ result[i] = Item(input, result[i].pos)
        /\ \A i, j \in 1..Len(result) : result[i].pos = result[j].pos => i = j

C3_Witness ==
    /\ rpc = "done"
    /\ Len(input) > k
    /\ k >= 2
    /\ \E i \in 1..Len(result) : result[i].pos > k
    /\ \E i, j \in 1..Len(result) : i # j /\ result[i].val = result[j].val

\* ------------------------------------------------------------------ C4
SubsetsOfSize(S, m) == {T \in SUBSET S : Cardinality(T) = m}

\* The number of draw sequences whose run over `inp` returns the positions S.
Hits(inp, kk, S) ==
    Cardinality({d \in DrawSeqs(Len(inp), kk) :
                    Positions(reservoir_sample(inp, kk, d)) = S})

\* C4: uniform without replacement.  The run is the function reservoir_sample
\* of its draws, the draws of a run are one of DrawSeqs (the draw for the i-th
\* record ranges over all of [0, i)), and every subset of min(n, k) input
\* positions is returned by the same number of those draw sequences:
\* |DrawSeqs| / Binomial(n, min(n, k)).
C4_Uniform ==
    rpc = "done" =>
        LET n == Len(input)
            m == Min(n, k)
        IN  /\ drawn \in DrawSeqs(n, k)
            /\ result = reservoir_sample(input, k, drawn)
            /\ \A S \in SubsetsOfSize(1..n, m) :
                  Hits(input, k, S) * Binomial(n, m) = Cardinality(DrawSeqs(n, k))

C4_Witness ==
    /\ rpc = "done"
    /\ Len(input) = MaxN
    /\ k = 2
    /\ Positions(result) = {MaxN - 1, MaxN}

\* =========================================================================
\* PercentageSampleIter
\* =========================================================================

\* The percentages a caller can pass: inside [0, 100], its two ends, and
\* outside it on either side.
Percentages == {-1, 0, 50, 100, 101}

None == [some |-> FALSE]
Some(x) == [some |-> TRUE, item |-> x]

\* (0.0..=100.0).contains(&percentage)
valid_percentage_upper(pct) == pct <= 100
valid_percentage(pct) == 0 <= pct /\ pct <= 100

\* percentage / 100.0, kept as the fraction <<numerator, denominator>>.
to_probability(pct) == <<pct, 100>>

\* self.rng.gen::<f64>() < self.probability, for the draw u / DrawRes.
keeps_le(u, prob) == u * prob[2] <= prob[1] * DrawRes
keeps(u, prob) == u * prob[2] < prob[1] * DrawRes

\* Every value the next `n` calls of rng.gen::<f64>() can return.
Tapes(n) == [1..n -> 0..(DrawRes - 1)]

\* PercentageSampleIter::next from the inner iterator position idx, with the
\* coming draws `tape`: the loop consumes records, one draw each, until a
\* record is kept or the inner iterator ends.  `used` are the draws made.
RECURSIVE percentage_loop(_, _, _, _, _)
percentage_loop(it, prob, idx, tape, used) ==
    IF idx = Len(it) THEN [ret |-> None, consumed |-> idx, draws |-> used]
    ELSE LET item == Item(it, idx + 1)
             u == Head(tape)
         IN  IF keeps(u, prob)
             THEN [ret |-> Some(item), consumed |-> idx + 1, draws |-> Append(used, u)]
             ELSE percentage_loop(it, prob, idx + 1, Tail(tape), Append(used, u))

percentage_next_stale(it, prob, idx, tape) ==
    LET r == percentage_loop(it, prob, idx, tape, <<>>)
    IN  IF r.ret.some /\ idx >= 1 THEN [r EXCEPT !.ret = Some(Item(it, idx))] ELSE r
percentage_next_prefetch(it, prob, idx, tape) ==
    LET r == percentage_loop(it, prob, idx, tape, <<>>)
    IN  IF r.ret.some /\ r.consumed < Len(it) THEN [r EXCEPT !.consumed = @ + 1] ELSE r
percentage_next(it, prob, idx, tape) == percentage_loop(it, prob, idx, tape, <<>>)

PercentageInit ==
    /\ iter \in SeqsUpTo(Values, MaxLen)
    /\ percentage \in Percentages
    /\ consumed = 0
    /\ probability = <<0, 100>>
    /\ ppc = "new"
    /\ out = <<>>
    /\ udrawn = <<>>
    /\ ReservoirIdle /\ HashIdle /\ SeededIdle /\ ConfigIdle

\* PercentageSampleIter::new (percentage_sample_iter): the assert, then the
\* struct with probability = percentage / 100.
PercentageNew ==
    /\ ppc = "new"
    /\ IF valid_percentage(percentage)
       THEN /\ ppc' = "iter"
            /\ probability' = to_probability(percentage)
       ELSE /\ ppc' = "panic"
            /\ UNCHANGED probability
    /\ UNCHANGED <<iter, consumed, percentage, out, udrawn, rvars, hvars, tvars, cvars>>

\* One call of next() by the consumer: the item returned is handed over.
PercentageNext ==
    /\ ppc = "iter"
    /\ \E tape \in Tapes(Len(iter) - consumed) :
          LET r == percentage_next(iter, probability, consumed, tape)
          IN  /\ consumed' = r.consumed
              /\ udrawn' = udrawn \o r.draws
              /\ IF r.ret.some
                 THEN out' = Append(out, r.ret.item) /\ UNCHANGED ppc
                 ELSE ppc' = "end" /\ UNCHANGED out
    /\ UNCHANGED <<iter, percentage, probability, rvars, hvars, tvars, cvars>>

PercentageStep == PercentageNew \/ PercentageNext

SpecPercentage == PercentageInit /\ [][PercentageStep]_vars

\* ------------------------------------------------------------------ C7
\* The records among the first n of `it` whose draw d[i] / DrawRes is
\* strictly below pct / 100, in input order.
RECURSIVE BelowThreshold(_, _, _, _)
BelowThreshold(it, pct, d, n) ==
    IF n = 0 THEN <<>>
    ELSE LET rest == BelowThreshold(it, pct, d, n - 1)
         IN  IF d[n] * 100 < pct * DrawRes THEN Append(rest, Item(it, n)) ELSE rest

\* C7: one draw in [0, 1) per consumed record, the record is emitted iff its
\* draw is strictly below p / 100; so p = 0 emits nothing and p = 100 emits
\* every record consumed (the whole input once the iterator has ended).
C7_Bernoulli ==
    ppc \in {"iter", "end"} =>
        /\ Len(udrawn) = consumed
        /\ \A i \in 1..Len(udrawn) : udrawn[i] \in 0..(DrawRes - 1)
        /\ out = BelowThreshold(iter, percentage, udrawn, consumed)
        /\ percentage = 0 => out = <<>>
        /\ percentage = 100 => out = SubSeq(Items(iter), 1, consumed)
        /\ (percentage = 100 /\ ppc = "end") => out = Items(iter)

C7_Witness ==
    /\ ppc = "end"
    /\ percentage = 50
    /\ Len(iter) = MaxLen
    /\ Len(out) = 1
    /\ \E i \in 1..Len(udrawn) : udrawn[i] * 2 = DrawRes

\* =========================================================================
\* CsvHashSampler
\* =========================================================================

\* A string is the sequence of its characters.
StrX == <<"x">>
StrY == <<"y">>
StrSpX == <<" ", "x">>
StrXSp == <<"x", " ">>

\* str::trim: drop the leading and the trailing whitespace.
RECURSIVE trim_start(_)
trim_start(str) ==
    IF str # <<>> /\ Head(str) = " " THEN trim_start(Tail(str)) ELSE str

RECURSIVE trim_end(_)
trim_end(str) ==
    IF str # <<>> /\ str[Len(str)] = " "
    THEN trim_end(SubSeq(str, 1, Len(str) - 1)) ELSE str

trim(str) == trim_end(trim_start(str))

\* What the reader can be given.  A line is its raw fields, or `bad` when it
\* cannot be decoded (for a StringRecord: bytes that are not UTF-8).
Line(fields) == [bad |-> FALSE, fields |-> fields]
BadLine == [bad |-> TRUE, fields |-> <<>>]

HeaderLines ==
    {Line(<<>>), Line(<<StrY>>), Line(<<StrSpX, StrX>>), Line(<<StrY, StrXSp>>), BadLine}

DataLines ==
    {Line(<<StrX>>), Line(<<StrSpX, StrY>>), Line(<<StrY, StrX>>), BadLine}

ColumnNames == {StrXSp, StrY}

\* The values of the fields after trimming: what calculate_hash is applied to.
Keys == {StrX, StrY}

Ok(x) == [ok |-> TRUE, val |-> x]
Err(kind) == [ok |-> FALSE, kind |-> kind]

\* csv::Reader with Trim::All: headers() and read_record() decode one line
\* and trim every field of it.
decode(line) ==
    IF line.bad THEN Err("InvalidData")
    ELSE Ok([i \in 1..Len(line.fields) |-> trim(line.fields[i])])

\* header.iter().position(|h| h.trim() == column_name.trim()), 0-based.
RECURSIVE position_from(_, _, _)
position_from(hdr, name, i) ==
    IF i > Len(hdr) THEN None
    ELSE IF trim(hdr[i]) = trim(name) THEN Some(i - 1)
    ELSE position_from(hdr, name, i + 1)

position(hdr, name) == position_from(hdr, name, 1)

\* record.get(index), 0-based.
get(rec, idx) == IF idx + 1 <= Len(rec) THEN Some(rec[idx + 1]) ELSE None

\* CsvHashSampler::new on a reader whose first line is `line`.
csv_hash_new_lenient(line, pct, name) ==
    IF ~valid_percentage(pct) THEN [tag |-> "panic"]
    ELSE LET h == decode(line)
         IN  IF ~h.ok THEN [tag |-> "err", kind |-> "InvalidData"]
             ELSE LET idx == position(h.val, name)
                  IN  [tag |-> "ok", header |-> h.val,
                       column_index |-> IF idx.some THEN idx.item ELSE 0,
                       probability |-> to_probability(pct)]
csv_hash_new(line, pct, name) ==
    IF ~valid_percentage(pct) THEN [tag |-> "panic"]
    ELSE LET h == decode(line)
         IN  IF ~h.ok THEN [tag |-> "err", kind |-> "InvalidData"]
             ELSE LET idx == position(h.val, name)
                  IN  IF ~idx.some THEN [tag |-> "err", kind |-> "InvalidInput"]
                      ELSE [tag |-> "ok", header |-> h.val,
                            column_index |-> idx.item,
                            probability |-> to_probability(pct)]

\* record.iter().collect::<Vec<_>>().join(sep): the fields one after the
\* other with sep between them, nothing quoted.
RECURSIVE join(_, _)
join(rec, sep) ==
    IF rec = <<>> THEN <<>>
    ELSE IF Len(rec) = 1 THEN rec[1]
    ELSE rec[1] \o <<sep>> \o join(Tail(rec), sep)

\* process_input: the Error returned for the io::Error of a failed new().
map_new_error(kind, name) ==
    IF kind = "InvalidInput" THEN [kind |-> "ColumnNotFound", column |-> name]
    ELSE [kind |-> "IoError", io |-> kind]

\* The hash is a u64 and the quotient is taken in f64.  The model keeps the
\* shape at a smaller width: hashes of HashBits bits, floats with a
\* significand of MantBits bits, MantBits < HashBits as 53 < 64.
HashBits == 4
MantBits == 2

RECURSIVE Pow2(_)
Pow2(e) == IF e = 0 THEN 1 ELSE 2 * Pow2(e - 1)

RECURSIVE BitLen(_)
BitLen(n) == IF n = 0 THEN 0 ELSE 1 + BitLen(n \div 2)

\* u64::MAX
HashMax == Pow2(HashBits) - 1

\* `n as f64`: the nearest float, ties to the even significand.
as_f64(n) ==
    IF BitLen(n) <= MantBits THEN n
    ELSE LET ulp == Pow2(BitLen(n) - MantBits)
             q == n \div ulp
             r == n % ulp
         IN  IF 2 * r < ulp THEN q * ulp
             ELSE IF 2 * r > ulp THEN (q + 1) * ulp
             ELSE IF q % 2 = 0 THEN q * ulp
             ELSE (q + 1) * ulp

\* (hash_value as f64 / u64::MAX as f64) < self.probability.  u64::MAX as f64
\* is a power of two, so the quotient is exact.
include(h, prob) == as_f64(h) * prob[2] < prob[1] * as_f64(HashMax)

\* calculate_hash(&column_value): a fresh DefaultHasher every call, so a
\* function of the key alone.  Its values are not modelled: `known` holds
\* the ones seen so far, any other key may hash to any u64.
calculate_hash_stateful(known, key) ==
    {(h + Len(read)) % (HashMax + 1) :
        h \in IF key \in DOMAIN known THEN {known[key]} ELSE 0..HashMax}
calculate_hash(known, key) ==
    IF key \in DOMAIN known THEN {known[key]} ELSE 0..HashMax

\* read_record returned Err: read_next_record sets done and next returns the
\* error as the item of this pull.
read_record_failed_resumes(known, lines, dec) ==
    [ret |-> Some(Err("InvalidData")), lines |-> lines, done |-> FALSE,
     hashfn |-> known, dec |-> dec]
read_record_failed(known, lines, dec) ==
    [ret |-> Some(Err("InvalidData")), lines |-> lines, done |-> TRUE,
     hashfn |-> known, dec |-> dec]

\* CsvHashSampler::next with done = false: every way the call can go, for a
\* reader that holds at most `cap` more lines.  `lines` are the lines read by
\* this call so far, `dec` the <<key, include>> it has computed.  An outcome
\* is the value returned, the lines read, the new `done`, and the hashes known.
RECURSIVE csv_hash_next(_, _, _, _, _, _)
csv_hash_next(known, prob, col, cap, lines, dec) ==
    LET \* read_record returned Ok(false): end of input
        eof == [ret |-> None, lines |-> lines, done |-> TRUE,
                hashfn |-> known, dec |-> dec]
        after(line) ==
            LET got == Append(lines, line)
                rec == decode(line)
            IN  IF ~rec.ok
                THEN {read_record_failed(known, got, dec)}
                ELSE LET value == get(rec.val, col)
                     IN  IF ~value.some
                         THEN {[ret |-> Some(Ok(rec.val)), lines |-> got, done |-> FALSE,
                                hashfn |-> known, dec |-> dec]}
                         ELSE UNION {
                                LET known2 == known @@ (value.item :> h)
                                    inc == include(h, prob)
                                    dec2 == dec \cup {<<value.item, inc>>}
                                IN  IF inc
                                    THEN {[ret |-> Some(Ok(rec.val)), lines |-> got,
                                           done |-> FALSE, hashfn |-> known2, dec |-> dec2]}
                                    ELSE csv_hash_next(known2, prob, col, cap - 1, got, dec2)
                                : h \in calculate_hash(known, value.item)}
    IN  {eof} \cup (IF cap = 0 THEN {} ELSE UNION {after(line) : line \in DataLines})

HashInit ==
    /\ column_name \in ColumnNames
    /\ percentage \in Percentages
    /\ probability = <<0, 100>>
    /\ out = <<>>
    /\ hashfn = <<>>
    /\ reader_head \in HeaderLines
    /\ hpc = "new"
    /\ new_result = [ok |-> TRUE]
    /\ proc_error = [kind |-> "none"]
    /\ header = <<>>
    /\ column_index = 0
    /\ done = FALSE
    /\ read = <<>>
    /\ last = None
    /\ decisions = {}
    /\ printed = <<>>
    /\ ReservoirIdle /\ PercentageIdle /\ SeededIdle /\ ConfigIdle

\* CsvHashSampler::new(reader, percentage, column_name) as process_input
\* calls it, the Error process_input returns when it fails, and the header
\* line it prints when it succeeds.
HashNew ==
    /\ hpc = "new"
    /\ LET r == csv_hash_new(reader_head, percentage, column_name)
       IN     \/ /\ r.tag = "panic"
                 /\ hpc' = "panic"
                 /\ UNCHANGED <<new_result, proc_error, header, column_index, probability,
                                printed>>
              \/ /\ r.tag = "err"
                 /\ hpc' = "failed"
                 /\ new_result' = Err(r.kind)
                 /\ proc_error' = map_new_error(r.kind, column_name)
                 /\ UNCHANGED <<header, column_index, probability, printed>>
              \/ /\ r.tag = "ok"
                 /\ hpc' = "streaming"
                 /\ new_result' = [ok |-> TRUE]
                 /\ header' = r.header
                 /\ column_index' = r.column_index
                 /\ probability' = r.probability
                 /\ printed' = <<join(r.header, ",")>>
                 /\ UNCHANGED proc_error
    /\ UNCHANGED <<column_name, percentage, out, hashfn, reader_head, done, read, last,
                   decisions, rvars, pvars, tvars, cvars>>

\* One call of next() by the consumer; process_input prints the record of an
\* Ok item.
HashNext ==
    /\ hpc = "streaming"
    /\ IF done
       THEN /\ last' = None
            /\ UNCHANGED <<read, done, out, hashfn, decisions, printed>>
       ELSE \E r \in csv_hash_next(hashfn, probability, column_index,
                                   MaxRows - Len(read), <<>>, {}) :
               /\ read' = read \o r.lines
               /\ done' = r.done
               /\ last' = r.ret
               /\ hashfn' = r.hashfn
               /\ decisions' = decisions \cup r.dec
               /\ out' = IF r.ret.some
                         THEN Append(out, [pos |-> Len(read) + Len(r.lines),
                                           val |-> r.ret.item])
                         ELSE out
               /\ printed' = IF r.ret.some /\ r.ret.item.ok
                             THEN Append(printed, join(r.ret.item.val, ","))
                             ELSE printed
    /\ UNCHANGED <<column_name, percentage, probability, reader_head, hpc, new_result,
                   proc_error, header, column_index, rvars, pvars, tvars, cvars>>

\* The sampler is dropped and the process constructs another one, with the
\* same column and percentage, on another reader.
HashRebuild ==
    /\ hpc = "streaming"
    /\ hpc' = "new"
    /\ reader_head' \in HeaderLines
    /\ header' = <<>>
    /\ column_index' = 0
    /\ probability' = <<0, 100>>
    /\ done' = FALSE
    /\ read' = <<>>
    /\ out' = <<>>
    /\ last' = None
    /\ printed' = <<>>
    /\ UNCHANGED <<column_name, percentage, hashfn, new_result, proc_error, decisions,
                   rvars, pvars, tvars, cvars>>

HashStep == HashNew \/ HashNext \/ HashRebuild

SpecHash == HashInit /\ [][HashStep]_vars

\* The two streaming selectors: process_input runs one of them.
StreamingInit == PercentageInit \/ HashInit

StreamingStep == PercentageStep \/ HashStep

SpecStreaming == StreamingInit /\ [][StreamingStep]_vars

\* The positions (in `read`) of the lines next() has returned.
Emitted(i) == \E n \in 1..Len(out) : out[n].pos = i

\* The value of line i of `read` in the designated column, if it has one.
KeyOf(i) ==
    LET rec == decode(read[i])
    IN  IF rec.ok THEN get(rec.val, column_index) ELSE None

\* ------------------------------------------------------------------ C5
\* C5: rows with the same value in the designated column are emitted both or
\* neither.  Within one stream: two lines read with the same key are both in
\* the output or both not.  Across the samplers constructed by one process
\* with the same column and percentage: no key has ever been given two
\* different decisions, whatever was read before it.
C5_SameKeySameDecision ==
    /\ \A d1, d2 \in decisions : d1[1] = d2[1] => d1[2] = d2[2]
    /\ hpc = "streaming" =>
          \A i, j \in 1..Len(read) :
              (KeyOf(i).some /\ KeyOf(j).some /\ KeyOf(i).item = KeyOf(j).item)
                  => (Emitted(i) <=> Emitted(j))

\* A second sampler (a key decided earlier is not in its stream) has emitted
\* two rows of one key and dropped nothing of that key, at p = 50.
C5_Witness ==
    /\ hpc = "streaming"
    /\ percentage = 50
    /\ Len(read) = 2
    /\ KeyOf(1).some /\ KeyOf(2).some /\ KeyOf(1).item = KeyOf(2).item
    /\ read[1] # read[2]
    /\ Emitted(1) /\ Emitted(2)
    /\ \E d \in decisions : d[1] # KeyOf(1).item /\ ~d[2]

\* ------------------------------------------------------------------ C6
\* C6: what the consumer has received so far is a subsequence of the input in
\* input order: the n-th item received is the input record of a position, and
\* the positions strictly increase.  Every state is a prefix of the output, so
\* this covers a consumer that stops pulling.
C6_OrderPreserved ==
    /\ ppc # "idle" =>
          /\ \A n \in 1..Len(out) :
                /\ out[n].pos \in 1..consumed
                /\ out[n] = Item(iter, out[n].pos)
          /\ \A n \in 1..(Len(out) - 1) : out[n].pos < out[n + 1].pos
    /\ hpc # "idle" =>
          /\ \A n \in 1..Len(out) :
                /\ out[n].pos \in 1..Len(read)
                /\ out[n].val = decode(read[out[n].pos])
          /\ \A n \in 1..(Len(out) - 1) : out[n].pos < out[n + 1].pos

C6_Witness ==
    /\ ppc = "iter"
    /\ percentage = 50
    /\ Len(iter) = MaxLen
    /\ Len(out) = 2
    /\ out[1].pos = 1 /\ out[2].pos = MaxLen

C6_WitnessHash ==
    /\ hpc = "streaming"
    /\ percentage = 50
    /\ Len(out) = 2
    /\ out[1].val.ok /\ out[2].val.ok
    /\ ~done

\* ------------------------------------------------------------------ C8
\* C8 (as claimed): every successfully decoded data row is emitted iff the
\* hash of its value in the designated column, divided by the hash's maximum
\* (the quotient as the sampler computes it), is strictly below p / 100; the
\* designated column is the first header position whose trimmed name equals
\* the trimmed requested name.
DesignatedColumn ==
    CHOOSE c \in 0..Len(header) :
        /\ c < Len(header) => trim(header[c + 1]) = trim(column_name)
        /\ \A b \in 0..(c - 1) : trim(header[b + 1]) # trim(column_name)

C8_EmitIffBelowThreshold ==
    hpc = "streaming" =>
        /\ column_index = DesignatedColumn
        /\ \A i \in 1..Len(read) :
              decode(read[i]).ok =>
                  LET value == get(decode(read[i]).val, DesignatedColumn)
                  IN  Emitted(i) <=>
                        /\ value.some
                        /\ value.item \in DOMAIN hashfn
                        /\ as_f64(hashfn[value.item]) * 100 < percentage * as_f64(HashMax)

\* ----------------------------------------------------------------- C10
HeaderMatches ==
    /\ ~reader_head.bad
    /\ \E i \in 1..Len(reader_head.fields) :
          trim(reader_head.fields[i]) = trim(column_name)

\* C10: for a percentage in [0, 100], new() fails iff no field of the header
\* matches the requested name after trimming (a header that cannot be decoded
\* has no field).  The failure comes from new(), with no data line read and
\* nothing emitted; a missing column is InvalidInput and an undecodable header
\* InvalidData; process_input returns ColumnNotFound with the requested name
\* for the former and for nothing else.  A sampler that was constructed never
\* reports a missing column: its error items are InvalidData.
C10_ColumnNotFound ==
    /\ hpc \in {"failed", "streaming"} => (hpc = "failed" <=> ~HeaderMatches)
    /\ hpc = "failed" =>
          /\ read = <<>> /\ out = <<>> /\ ~last.some /\ ~done
          /\ ~new_result.ok
          /\ new_result.kind = (IF reader_head.bad THEN "InvalidData" ELSE "InvalidInput")
          /\ proc_error = (IF reader_head.bad
                           THEN [kind |-> "IoError", io |-> "InvalidData"]
                           ELSE [kind |-> "ColumnNotFound", column |-> column_name])
    /\ hpc \in {"new", "streaming"} =>
          /\ proc_error.kind = "none"
          /\ new_result.ok
          /\ \A n \in 1..Len(out) : ~out[n].val.ok => out[n].val.kind = "InvalidData"

C10_Witness ==
    /\ hpc = "failed"
    /\ Len(reader_head.fields) = 2
    /\ proc_error = [kind |-> "ColumnNotFound", column |-> StrY]
    /\ decisions # {}

\* ----------------------------------------------------------------- C16
\* C16 (as claimed): the quotient hash / MAX the sampler computes is below 1
\* for every hash value, the largest ones included, so at p = 100 every row
\* that was decoded is emitted whatever its key hashes to.
C16_QuotientBelowOne ==
    hpc = "streaming" =>
        /\ \A key \in DOMAIN hashfn : as_f64(hashfn[key]) < as_f64(HashMax)
        /\ percentage = 100 =>
              /\ \A d \in decisions : d[2]
              /\ \A i \in 1..Len(read) : decode(read[i]).ok => Emitted(i)

\* ----------------------------------------------------------------- C11
\* C11: a line that cannot be decoded is yielded as an error item at its own
\* position (the latest item of the output, after the rows kept before it),
\* error items come from such lines only, and it is the last line ever read;
\* once done is set (by a decode error or by end of input) it stays set and
\* every later call of next() returns None, reads nothing and yields nothing.
C11_Exhausted ==
    hpc = "streaming" =>
        /\ \A i \in 1..Len(read) :
              read[i].bad =>
                  /\ i = Len(read)
                  /\ done
                  /\ out # <<>>
                  /\ out[Len(out)] = [pos |-> i, val |-> Err("InvalidData")]
        /\ \A n \in 1..Len(out) : ~out[n].val.ok => read[out[n].pos].bad
        /\ done => (last = None \/ last = Some(Err("InvalidData")))

C11_Terminal ==
    (hpc = "streaming" /\ done /\ hpc' = "streaming") =>
        /\ done'
        /\ last' = None
        /\ read' = read
        /\ out' = out

C11_ErrorThenTerminal == [](C11_Exhausted) /\ [][C11_Terminal]_vars

\* A row was kept, the next line failed to decode and was yielded, and a
\* later call of next() returned None.
C11_Witness ==
    /\ hpc = "streaming"
    /\ done
    /\ last = None
    /\ Len(read) = 2
    /\ read[2].bad
    /\ Len(out) = 2
    /\ out[1].val.ok

\* ----------------------------------------------------------------- C13
\* The Ok items among the first n items next() has returned.
RECURSIVE OkRows(_)
OkRows(n) ==
    IF n = 0 THEN <<>>
    ELSE IF out[n].val.ok THEN Append(OkRows(n - 1), out[n].val.val)
    ELSE OkRows(n - 1)

\* C13 (as claimed): header() is the header of the input as it stands there:
\* the same fields in the same order with the same text; process_input
\* prints it first, whatever the percentage, and the lines after it are the
\* rows next() returned: the header is not one of them and no decision is
\* made about it.
C13_HeaderUnmodified ==
    hpc = "streaming" =>
        /\ header = reader_head.fields
        /\ printed # <<>>
        /\ printed[1] = join(reader_head.fields, ",")
        /\ Tail(printed) = [n \in 1..Len(OkRows(Len(out))) |-> join(OkRows(Len(out))[n], ",")]
        /\ \A n \in 1..Len(out) : out[n].pos \in 1..Len(read)

\* ----------------------------------------------------------------- C12
\* C12: with a percentage outside [0, 100] the constructor of either
\* streaming selector panics on its assertion, and only then; the panic comes
\* before anything is consumed: no record of the inner iterator and no draw
\* for PercentageSampleIter, and for CsvHashSampler not even the header (a
\* header that cannot be decoded still gives the panic, not an Err).  With a
\* percentage in [0, 100], 0 and 100 included, the constructor does not panic
\* and an Err of new() is about the header, never about the percentage.
C12_InvalidPercentage ==
    LET inside == 0 <= percentage /\ percentage <= 100
    IN  /\ ppc \in {"iter", "end", "panic"} => (ppc = "panic" <=> ~inside)
        /\ ppc = "panic" => (consumed = 0 /\ udrawn = <<>> /\ out = <<>>)
        /\ ppc \in {"iter", "end"} => probability = <<percentage, 100>>
        /\ hpc \in {"streaming", "failed", "panic"} => (hpc = "panic" <=> ~inside)
        /\ hpc = "panic" =>
              /\ header = <<>> /\ read = <<>> /\ out = <<>> /\ ~last.some
              /\ new_result.ok /\ proc_error.kind = "none"
        /\ hpc = "failed" => new_result.kind \in {"InvalidData", "InvalidInput"}
        /\ hpc = "streaming" => probability = <<percentage, 100>>

\* CsvHashSampler::new panicked on a reader whose header cannot be decoded.
C12_Witness ==
    /\ hpc = "panic"
    /\ percentage = 101
    /\ reader_head.bad

C12_WitnessPercentage ==
    /\ ppc = "panic"
    /\ percentage = -1
    /\ Len(iter) = MaxLen

C12_WitnessBoundary ==
    /\ ppc = "end"
    /\ percentage = 100
    /\ Len(out) = MaxLen

\* ----------------------------------------------------------------- C15
\* While the selector has not ended, the input read so far ends at the
\* record handed over last (nothing is read before the first pull).
C15_NothingReadAhead ==
    /\ ppc = "iter" => consumed = (IF out = <<>> THEN 0 ELSE out[Len(out)].pos)
    /\ ppc = "end" => consumed = Len(iter)
    /\ (hpc = "streaming" /\ (~done \/ last.some)) =>
          Len(read) = (IF out = <<>> THEN 0 ELSE out[Len(out)].pos)

\* A step that reads input is a pull, and it reads up to the item it hands
\* over, or up to the end of the input when it hands over nothing.
C15_PullStopsAtKept ==
    /\ (ppc # "idle" /\ consumed' # consumed) =>
          /\ consumed' > consumed
          /\ \/ out' = Append(out, Item(iter, consumed'))
             \/ out' = out /\ ppc' = "end" /\ consumed' = Len(iter)
    /\ (hpc = "streaming" /\ hpc' = "streaming" /\ read' # read) =>
          /\ Len(read') > Len(read)
          /\ SubSeq(read', 1, Len(read)) = read
          /\ \/ /\ Len(out') = Len(out) + 1
                /\ SubSeq(out', 1, Len(out)) = out
                /\ out'[Len(out')].pos = Len(read')
                /\ last' = Some(out'[Len(out')].val)
             \/ out' = out /\ last' = None /\ done'

\* C15: the two streaming selectors are lazy.  A pull reads records up to and
\* including the first one kept, or to the end of the input, so whenever an
\* item has been handed over no record after it has been read, and the input
\* is read by pulls only.
C15_Lazy == [](C15_NothingReadAhead) /\ [][C15_PullStopsAtKept]_vars

\* The first record was dropped and the second handed over while the third
\* is still unread.
C15_Witness ==
    /\ ppc = "iter"
    /\ Len(iter) = 3
    /\ consumed = 2
    /\ Len(out) = 1
    /\ out[1].pos = 2

C15_WitnessHash ==
    /\ hpc = "streaming"
    /\ ~done
    /\ percentage = 50
    /\ Len(read) = 2
    /\ Len(out) = 1
    /\ decode(read[1]).ok /\ KeyOf(1).some

\* =========================================================================
\* Two runs of process_input with the same configuration and input
\* =========================================================================

\* StdRng is a deterministic generator: its state, the step that yields the
\* next word, and the two ways process_input creates it.  The generator of
\* the rand crate is replaced by a small full-period congruential one.
RngStates == 0..7

rng_next(state) == (5 * state + 3) % 8

\* StdRng::seed_from_u64(seed)
seed_from_u64(sd) == (3 * sd + 1) % 8

\* `if let Some(seed) = config.seed { seed_from_u64(seed) } else
\* { from_rng(thread_rng()) }`: `entropy` is what thread_rng supplies.
make_rng_entropy(sd, entropy) == entropy
make_rng(sd, entropy) == IF sd.some THEN seed_from_u64(sd.item) ELSE entropy

\* rng.gen_range(0..cnt) on the generator state `state`.
rng_gen_range(state, cnt) == rng_next(state) % cnt

\* rng.gen::<f64>() on the generator state `state`, as a numerator over DrawRes.
rng_gen_f64(state) == (rng_next(state) * DrawRes) \div 8

\* The next n values of rng.gen::<f64>().
RECURSIVE rng_tape(_, _)
rng_tape(state, n) ==
    IF n = 0 THEN <<>> ELSE <<rng_gen_f64(state)>> \o rng_tape(rng_next(state), n - 1)

RECURSIVE rng_advance(_, _)
rng_advance(state, n) == IF n = 0 THEN state ELSE rng_advance(rng_next(state), n - 1)

Seeds == {None, Some(0), Some(1)}

NotStarted ==
    [pc |-> "init", rng |-> 0, reservoir |-> <<>>, count |-> 0, drawn |-> <<>>, out |-> <<>>]

SeededInit ==
    /\ selector \in {"reservoir", "percentage"}
    /\ input \in SeqsUpTo(Values, MaxLen)
    /\ k \in (IF selector = "reservoir" THEN 1..MaxK ELSE {1})
    /\ percentage \in (IF selector = "percentage"
                       THEN {pct \in Percentages : valid_percentage(pct)} ELSE {0})
    /\ seed \in Seeds
    /\ runs = [r \in 1..2 |-> NotStarted]
    /\ reservoir = <<>> /\ count = 0 /\ rpc = "idle" /\ result = <<>> /\ drawn = <<>>
    /\ probability = <<0, 100>> /\ out = <<>>
    /\ PercentageIdle /\ HashIdle /\ ConfigIdle

\* process_input creates the generator of run r (the second run of the
\* program starts when the first has ended).
SeededStart(r) ==
    /\ runs[r].pc = "init"
    /\ r = 2 => runs[1].pc = "done"
    /\ \E entropy \in RngStates :
          runs' = [runs EXCEPT ![r].rng = make_rng(seed, entropy),
                               ![r].pc = IF selector = "reservoir" THEN "loop" ELSE "iter"]
    /\ UNCHANGED <<seed, selector, rvars, pvars, svars, hvars, cvars>>

\* One iteration of the for loop of reservoir_sample in run r.
SeededReservoirLoop(r) ==
    /\ runs[r].pc = "loop"
    /\ runs[r].count < Len(input)
    /\ LET cnt == runs[r].count + 1
           draws == ~fills(cnt, k)
           j == IF draws THEN rng_gen_range(runs[r].rng, cnt) ELSE NoDraw
       IN  runs' = [runs EXCEPT
                ![r].count = cnt,
                ![r].reservoir = reservoir_step(runs[r].reservoir, cnt, k,
                                               next_item(input, cnt), j),
                ![r].rng = IF draws THEN rng_next(runs[r].rng) ELSE runs[r].rng,
                ![r].drawn = IF draws THEN Append(runs[r].drawn, j) ELSE runs[r].drawn]
    /\ UNCHANGED <<seed, selector, rvars, pvars, svars, hvars, cvars>>

\* reservoir_sample returns in run r and process_input prints the lines.
SeededReservoirReturn(r) ==
    /\ runs[r].pc = "loop"
    /\ runs[r].count = Len(input)
    /\ runs' = [runs EXCEPT ![r].out = runs[r].reservoir, ![r].pc = "done"]
    /\ UNCHANGED <<seed, selector, rvars, pvars, svars, hvars, cvars>>

\* One pass of `for line in sampled_iter` in run r: a call of next(), and the
\* line printed or the loop left.
SeededPercentageNext(r) ==
    /\ runs[r].pc = "iter"
    /\ LET idx == runs[r].count
           res == percentage_next(input, to_probability(percentage), idx,
                                  rng_tape(runs[r].rng, Len(input) - idx))
       IN  runs' = [runs EXCEPT
                ![r].count = res.consumed,
                ![r].rng = rng_advance(runs[r].rng, Len(res.draws)),
                ![r].drawn = runs[r].drawn \o res.draws,
                ![r].out = IF res.ret.some THEN Append(runs[r].out, res.ret.item)
                           ELSE runs[r].out,
                ![r].pc = IF res.ret.some THEN "iter" ELSE "done"]
    /\ UNCHANGED <<seed, selector, rvars, pvars, svars, hvars, cvars>>

SeededStep ==
    \E r \in 1..2 :
        \/ SeededStart(r)
        \/ SeededReservoirLoop(r)
        \/ SeededReservoirReturn(r)
        \/ SeededPercentageNext(r)

SpecSeeded == SeededInit /\ [][SeededStep]_vars

\* ------------------------------------------------------------------ C9
\* C9: with a seed given, two runs on the same input make the same draws and
\* print the same output, for reservoir_sample and for percentage_sample_iter;
\* and the output of any run is the function of k or p, the input and the
\* draws it made.
C9_SeededRunsAgree ==
    /\ (seed.some /\ runs[1].pc = "done" /\ runs[2].pc = "done") =>
          /\ runs[1].drawn = runs[2].drawn
          /\ runs[1].out = runs[2].out
    /\ \A r \in DOMAIN runs :
          runs[r].pc = "done" =>
             /\ selector = "reservoir" =>
                   runs[r].out = reservoir_sample(input, k, runs[r].drawn)
             /\ selector = "percentage" =>
                   runs[r].out = BelowThreshold(input, percentage, runs[r].drawn, Len(input))

C9_Witness ==
    /\ seed.some
    /\ selector = "reservoir"
    /\ runs[1].pc = "done" /\ runs[2].pc = "done"
    /\ Len(input) > k
    /\ \E i \in 1..Len(runs[2].out) : runs[2].out[i].pos > k

C9_WitnessPercentage ==
    /\ seed.some
    /\ selector = "percentage"
    /\ percentage = 50
    /\ runs[1].pc = "done" /\ runs[2].pc = "done"
    /\ Len(runs[2].out) >= 1 /\ Len(runs[2].out) < Len(input)

\* =========================================================================
\* parse_args and the selector process_input runs
\* =========================================================================

\* The text given to --percentage: a number, or something that is none.
Num(x) == [num |-> TRUE, val |-> x]
NotANumber == [num |-> FALSE]

SampleSizeArgs == {None, Some(0), Some(1), Some(2)}
PercentageArgs == {None, Some(NotANumber)} \cup {Some(Num(pct)) : pct \in Percentages}
HashColumnArgs == {None, Some(StrY)}
SeedArgs == {None, Some(0)}

\* percentage_validator(s): the f64 the text parses to, if it lies in [0, 100].
percentage_validator_lenient(text) ==
    IF ~text.num THEN Err("must be a number") ELSE Ok(text.val)
percentage_validator(text) ==
    IF ~text.num THEN Err("must be a number")
    ELSE IF ~valid_percentage(text.val) THEN Err("percentage must be between 0 and 100")
    ELSE Ok(text.val)

\* Config::try_parse_from: the value parser of --percentage, and
\* conflicts_with = "percentage" on sample_size.
try_parse_from(a) ==
    LET pct == IF a.percentage.some THEN percentage_validator(a.percentage.item)
               ELSE Ok(0)
    IN  IF a.percentage.some /\ ~pct.ok THEN Err("clap::ValueValidation")
        ELSE IF a.sample_size.some /\ a.percentage.some THEN Err("clap::ArgumentConflict")
        ELSE Ok([sample_size |-> a.sample_size,
                 percentage |-> IF a.percentage.some THEN Some(pct.val) ELSE None,
                 csv_mode |-> a.csv_mode,
                 seed |-> a.seed,
                 hash_column |-> a.hash_column])

\* Config::validate
validate_optional(config) ==
    IF config.sample_size.some /\ config.sample_size.item = 0
    THEN Err("InvalidSampleSize")
    ELSE IF config.hash_column.some /\ ~config.csv_mode THEN Err("HashRequiresCsvMode")
    ELSE IF config.hash_column.some /\ ~config.percentage.some
    THEN Err("HashRequiresPercentage")
    ELSE Ok(config)
validate(config) ==
    IF config.sample_size.some /\ config.sample_size.item = 0
    THEN Err("InvalidSampleSize")
    ELSE IF ~config.sample_size.some /\ ~config.percentage.some
    THEN Err("MissingRequiredOption")
    ELSE IF config.hash_column.some /\ ~config.csv_mode THEN Err("HashRequiresCsvMode")
    ELSE IF config.hash_column.some /\ ~config.percentage.some
    THEN Err("HashRequiresPercentage")
    ELSE Ok(config)

\* parse_args_internal: the error of clap goes to on_error, the configuration
\* clap built to validate.
parse_args(a) ==
    LET config == try_parse_from(a)
    IN  IF ~config.ok THEN config ELSE validate(config.val)

\* process_input: the branch it takes.
process_input(config) ==
    IF config.csv_mode /\ config.percentage.some /\ config.hash_column.some THEN "hash"
    ELSE IF config.sample_size.some /\ ~config.percentage.some THEN "reservoir"
    ELSE IF ~config.sample_size.some /\ config.percentage.some THEN "percentage"
    ELSE "unreachable"

ConfigInit ==
    /\ args \in [sample_size : SampleSizeArgs, percentage : PercentageArgs,
                 csv_mode : BOOLEAN, seed : SeedArgs, hash_column : HashColumnArgs]
    /\ cpc = "start"
    /\ parsed = [ok |-> TRUE]
    /\ dispatch = "none"
    /\ ReservoirIdle /\ PercentageIdle /\ StreamIdle /\ HashIdle /\ SeededIdle

\* main: config::parse_args(); an Err ends the process.
ParseArgs ==
    /\ cpc = "start"
    /\ parsed' = parse_args(args)
    /\ cpc' = IF parsed'.ok THEN "accepted" ELSE "rejected"
    /\ UNCHANGED <<args, dispatch, rvars, pvars, svars, hvars, tvars>>

\* main: process_input(&config) with the configuration parse_args returned.
ProcessInput ==
    /\ cpc = "accepted"
    /\ dispatch' = process_input(parsed.val)
    /\ cpc' = "running"
    /\ UNCHANGED <<args, parsed, rvars, pvars, svars, hvars, tvars>>

ConfigStep == ParseArgs \/ ProcessInput

SpecConfig == ConfigInit /\ [][ConfigStep]_vars

\* ----------------------------------------------------------------- C14
\* C14: parse_args accepts a command line iff exactly one of sample size and
\* percentage is given, a given sample size is at least 1, a given percentage
\* is a number in [0, 100], and a hash column comes with --csv and a
\* percentage.  A rejected command line ends in an Err with process_input
\* never called, so no selector is constructed and nothing is read.  A sample
\* size of 0 that clap lets through (no percentage beside it) is
\* InvalidSampleSize, whatever else is wrong.
C14_Validation ==
    cpc # "start" =>
        LET size == args.sample_size
            pct == args.percentage
            acceptable ==
                /\ size.some # pct.some
                /\ size.some => size.item >= 1
                /\ pct.some => /\ pct.item.num
                               /\ 0 <= pct.item.val /\ pct.item.val <= 100
                /\ args.hash_column.some => (args.csv_mode /\ pct.some)
        IN  /\ cpc \in {"accepted", "running"} <=> acceptable
            /\ cpc = "rejected" => (~parsed.ok /\ dispatch = "none")
            /\ cpc \in {"accepted", "running"} =>
                  /\ parsed.ok
                  /\ parsed.val.sample_size = size
                  /\ parsed.val.percentage.some = pct.some
                  /\ pct.some => parsed.val.percentage.item = pct.item.val
            /\ (size = Some(0) /\ ~pct.some) => parsed = Err("InvalidSampleSize")

\* A sample size with --csv and --hash: rejected for the missing percentage.
C14_Witness ==
    /\ cpc = "rejected"
    /\ parsed = Err("HashRequiresPercentage")
    /\ args.sample_size = Some(2)
    /\ args.csv_mode

\* ----------------------------------------------------------------- C17
\* C17: for a configuration parse_args accepted, process_input takes exactly
\* one branch: the hash sampler iff --csv, a percentage and a hash column are
\* all given, otherwise reservoir_sample iff a sample size is given, otherwise
\* percentage_sample_iter; it never reaches unreachable!().
C17_Dispatch ==
    cpc = "running" =>
        LET hash == args.csv_mode /\ args.percentage.some /\ args.hash_column.some
        IN  /\ dispatch \in {"hash", "reservoir", "percentage"}
            /\ dispatch = "hash" <=> hash
            /\ dispatch = "reservoir" <=> (~hash /\ args.sample_size.some)
            /\ dispatch = "percentage" <=> (~hash /\ ~args.sample_size.some)
            /\ dispatch = "percentage" => args.percentage.some

C17_Witness ==
    /\ cpc = "running"
    /\ dispatch = "hash"
    /\ args.percentage = Some(Num(0))

C17_WitnessReservoir ==
    /\ cpc = "running"
    /\ dispatch = "reservoir"
    /\ args.csv_mode

====
